---- MODULE Spec2Model ----
(***************************************************************************)
(* The MCP chat clients of this repository as one state machine:           *)
(*   nested    src/reference_impls/mcp-client-nested-tool-calls.py         *)
(*   streaming src/reference_impls/mcp-client-streaming.py                 *)
(*   single    src/mcp-client-single-query.py                              *)
(* A run is one process of one of the three scripts (mode).  The control   *)
(* coroutine is at pc; the tool-call tasks of the latest batch are in      *)
(* tasks; the language model and the tool host are the environment.        *)
(*                                                                         *)
(* Text is a sequence of tokens (strings).  A Python value that may be     *)
(* None is None or Val(v).                                                 *)
(***************************************************************************)
EXTENDS Integers, Sequences, FiniteSets, TLC

VARIABLES
    mode,           \* which script runs
    pc,             \* position of the control coroutine (main / chat_loop / turn)
    messages,       \* the message list (self.messages; local list in single)
    user_input,     \* the line input() returned last
    nToolCalls,     \* tool calls the model has requested so far
    modelCalls,     \* completions.create calls made so far
    invocations,    \* session.call_tool requests issued so far
    finish_reason,  \* finish_reason of the latest model response
    reply,          \* the text the model returned with the latest stop response
    tool_calls,     \* tool_calls of the latest tool_calls response
    tasks,          \* the process_tool_call tasks of the latest batch
    gatherErr,      \* first exception set on the pending gather future
    orphans,        \* tasks of older batches still awaiting the tool host
    outcome,        \* how the latest turn ended (or "running")
    error,          \* the exception the except clause of chat_loop caught last
    stepBase,       \* messages when the latest model call was made
    closed,         \* exit_stack.aclose() has run
    escaped,        \* an exception left chat_loop / connect_to_server
    stream,         \* the tool-call deltas the loop "for event in stream" has read
    tool_calls_acc, \* tool_calls_acc of that loop, delta by delta
    available_tools, \* the list_tools answer available_tools was built from
    assistant_text_parts \* assistant_text_parts of the loop "for event in stream"

vars == <<mode, pc, messages, user_input, nToolCalls, modelCalls, invocations,
          finish_reason, reply, tool_calls, tasks, gatherErr, orphans, outcome,
          error, stepBase, closed, escaped, stream, tool_calls_acc, available_tools,
          assistant_text_parts>>

(***************************************************************************)
(* Bounds of the model.                                                    *)
(***************************************************************************)
MaxModelCalls == 2
MaxToolCalls == 2
MaxFrags == 3

(***************************************************************************)
(* Python values.                                                          *)
(***************************************************************************)
None == [isNone |-> TRUE]
Val(v) == [val |-> v]
IsNone(x) == x = None

Modes == {"nested", "streaming", "single"}

(***************************************************************************)
(* str.lower() and the exit test of chat_loop.  Input lines are sequences  *)
(* of characters.                                                          *)
(***************************************************************************)
LowerChar(c) ==
    CASE c = "E" -> "e"
      [] c = "X" -> "x"
      [] c = "I" -> "i"
      [] c = "T" -> "t"
      [] c = "H" -> "h"
      [] OTHER -> c

Lower(s) == [i \in 1..Len(s) |-> LowerChar(s[i])]

ExitWord == <<"e", "x", "i", "t">>

IsExitCaseSensitive(s) == s = ExitWord

IsExit(s) == Lower(s) = ExitWord

UserInputs ==
    { <<"h", "i">>,
      <<"e", "x", "i", "t">>,
      <<"E", "X", "I", "T">>,
      <<"E", "x", "i", "t">> }

(***************************************************************************)
(* json.loads on the arguments text of a tool call, for flat objects of    *)
(* string members: { k : v , k : v }.  A dict is a sequence of [k, v]      *)
(* in insertion order; v is the token text of the value.                   *)
(***************************************************************************)
Punct == {"{", "}", ":", ",", "[", "]"}

IsJsonObject(t) ==
    /\ Len(t) >= 2
    /\ t[1] = "{"
    /\ t[Len(t)] = "}"
    /\ \/ Len(t) = 2
       \/ /\ (Len(t) - 2) % 4 = 3
          /\ \A i \in 2..(Len(t) - 1) :
                CASE (i - 2) % 4 = 0 -> t[i] \notin Punct
                  [] (i - 2) % 4 = 1 -> t[i] = ":"
                  [] (i - 2) % 4 = 2 -> t[i] \notin Punct
                  [] OTHER -> t[i] = ","

DictKeys(d) == {d[i].k : i \in 1..Len(d)}

DictSet(d, k, v) ==
    IF k \in DictKeys(d)
    THEN [i \in 1..Len(d) |-> IF d[i].k = k THEN [k |-> k, v |-> v] ELSE d[i]]
    ELSE Append(d, [k |-> k, v |-> v])

RECURSIVE JsonMembers(_, _)
JsonMembers(t, n) ==
    IF n = 0 THEN <<>>
    ELSE DictSet(JsonMembers(t, n - 1), t[4 * n - 2], <<t[4 * n]>>)

JsonLoads(t) ==
    IF IsJsonObject(t)
    THEN Val(JsonMembers(t, (Len(t) - 1) \div 4))
    ELSE None

RECURSIVE JoinTokens(_, _)
JoinTokens(items, sep) ==
    IF Len(items) = 0 THEN <<>>
    ELSE IF Len(items) = 1 THEN items[1]
    ELSE items[1] \o <<sep>> \o JoinTokens(Tail(items), sep)

JsonList(results) ==
    <<"[">> \o JoinTokens([i \in 1..Len(results) |-> <<results[i]>>], ",") \o <<"]">>

JsonDumps(d) ==
    <<"{">> \o JoinTokens([i \in 1..Len(d) |-> <<d[i].k, ":">> \o d[i].v], ",") \o <<"}">>

(***************************************************************************)
(* Messages.                                                               *)
(***************************************************************************)
UserMessage(text) ==
    [role |-> "user", content |-> Val(text), tool_calls |-> None, tool_call_id |-> None]

AssistantText(content) ==
    [role |-> "assistant", content |-> content, tool_calls |-> None, tool_call_id |-> None]

AssistantCalls(calls) ==
    [role |-> "assistant", content |-> None, tool_calls |-> Val(calls), tool_call_id |-> None]

ToolMessage(tool_call, tool_args, results) ==
    [role |-> "tool",
     content |-> Val(JsonDumps(DictSet(tool_args, tool_call.name, JsonList(results)))),
     tool_calls |-> None,
     tool_call_id |-> Val(tool_call.id)]

(***************************************************************************)
(* The environment: what the language model and the tool host may send.    *)
(***************************************************************************)
ToolNames == {"search"}

\* the id the model supplies for the i-th call of a response
CallId(i) == "call_" \o ToString(i)

ArgTexts ==
    { <<"{", "q", ":", "x", "}">>,     \* {"q": "x"}
      <<"{", "not">>,                  \* malformed
      <<>> }                           \* empty text

Contents == { None, Val(<<"6857">>) }

FinishReasons ==
    {"stop", "tool_calls", "length", "content_filter", "function_call", "other"}

ToolCall(id, name, arguments) ==
    [id |-> id, type |-> "function", name |-> name, arguments |-> arguments]

ToolCallsOf(S) ==
    { ToolCall(id, n, a) : id \in S, n \in ToolNames, a \in ArgTexts }

\* ordered batches of n tool calls
RECURSIVE Batches(_)
Batches(n) ==
    IF n = 0 THEN {<<>>}
    ELSE { Append(b, c) : b \in Batches(n - 1), c \in ToolCallsOf({CallId(n)}) }

\* a chat completion with at most n tool calls: choices[0].finish_reason
\* and choices[0].message, whose tool_calls is None or a list
ModelResponses(n) ==
    { [finish_reason |-> fr, content |-> c, tool_calls |-> None] :
        fr \in FinishReasons \ {"tool_calls"}, c \in Contents }
    \cup
    { [finish_reason |-> "tool_calls", content |-> None, tool_calls |-> tc] :
        tc \in {None} \cup {Val(b) : b \in UNION { Batches(k) : k \in 0..n }} }

TextItem(t) == [type |-> "text", text |-> t]
ImageItem == [type |-> "image", text |-> ""]

\* a CallToolResult
HostResponses ==
    { [isError |-> FALSE, content |-> <<TextItem("r1")>>],
      [isError |-> FALSE, content |-> <<TextItem("r2"), TextItem("r1")>>],
      [isError |-> FALSE, content |-> <<TextItem("r1"), ImageItem>>],
      [isError |-> TRUE, content |-> <<>>] }

(***************************************************************************)
(* process_tool_call.  It runs to the await of session.call_tool           *)
(* (ParseArguments), and from the host's answer to its return or raise     *)
(* (ToolCallOutcome).                                                      *)
(***************************************************************************)
ParseArguments(m, tool_call) ==
    IF m = "streaming" /\ tool_call.arguments = <<>>
    THEN JsonLoads(<<"{", "}">>)
    ELSE JsonLoads(tool_call.arguments)

ExtractResults(content) ==
    IF \E i \in 1..Len(content) : content[i].type # "text"
    THEN None
    ELSE Val([i \in 1..Len(content) |-> content[i].text])

\* a task: where it is, the call_tool requests it has issued, the
\* CallToolResult it received, the message it returned or the exception it
\* raised, and its rank among the tasks of the batch that have finished
NewTask ==
    [state |-> "created", calls |-> 0, response |-> None, result |-> None,
     error |-> "", order |-> 0]

Inflight(ts) == {i \in 1..Len(ts) : ts[i].state = "inflight"}

Finished(ts) == {i \in 1..Len(ts) : ts[i].state \in {"ok", "err"}}

TaskFailed(t, err, rank) == [t EXCEPT !.state = "err", !.error = err, !.order = rank]

TaskInvoked(t) == [t EXCEPT !.state = "inflight", !.calls = @ + 1]

ToolCallOutcome(m, tool_call, t, resp, rank) ==
    LET got == [t EXCEPT !.response = Val(resp)]
    IN  IF resp.isError
        THEN TaskFailed(got, "ToolCallFailed", rank)
        ELSE IF IsNone(ExtractResults(resp.content))
        THEN TaskFailed(got, "UnsupportedResultType", rank)
        ELSE [got EXCEPT !.state = "ok",
                         !.order = rank,
                         !.result = Val(ToolMessage(tool_call,
                                                    ParseArguments(m, tool_call).val,
                                                    ExtractResults(resp.content).val))]

(***************************************************************************)
(* The finish_reason branches that raise.                                  *)
(***************************************************************************)
FinishError(m, fr) ==
    CASE fr = "length" -> "LengthLimit"
      [] fr = "content_filter" -> "ContentFilter"
      [] fr = "function_call" /\ m # "streaming" -> "DeprecatedAPI"
      [] OTHER -> "UnknownFinishReason"

(***************************************************************************)
(* The streaming client: the events of a streamed completion and the loop  *)
(* of process_messages_streaming that accumulates them.                    *)
(***************************************************************************)
\* Python truthiness of an Optional[str] (a string, or a text)
TruthyStr(x) == ~IsNone(x) /\ x.val # ""
TruthyText(x) == ~IsNone(x) /\ x.val # <<>>

\* one entry of delta.tool_calls
Delta(idx, id, type, name, arguments) ==
    [index |-> idx, id |-> id, type |-> type,
     function |-> Val([name |-> name, arguments |-> arguments])]

\* one event of the stream
Event(content, tcs, fr) ==
    [content |-> content, tool_calls |-> tcs, finish_reason |-> fr]

NewSlot(tc) == [id |-> None, type |-> tc.type, name |-> "", arguments |-> <<>>]

\* slot["function"]["name"] = tc.function.name
SetName(slot, name) == [slot EXCEPT !.name = name]

\* variant: the arguments of a slot are those of its latest delta
AddArgumentsReplacing(slot, arguments) == [slot EXCEPT !.arguments = arguments]

\* slot["function"]["arguments"] += tc.function.arguments
AddArguments(slot, arguments) == [slot EXCEPT !.arguments = @ \o arguments]

UpdateSlot(slot, tc) ==
    LET s1 == IF TruthyStr(tc.id) THEN [slot EXCEPT !.id = tc.id] ELSE slot
        s2 == IF ~IsNone(tc.function) /\ TruthyStr(tc.function.val.name)
              THEN SetName(s1, tc.function.val.name.val)
              ELSE s1
    IN  IF ~IsNone(tc.function) /\ TruthyText(tc.function.val.arguments)
        THEN AddArguments(s2, tc.function.val.arguments.val)
        ELSE s2

\* tool_calls_acc.setdefault(idx, ...) and the updates of the slot
ApplyDelta(acc, tc) ==
    LET slot == IF tc.index \in DOMAIN acc THEN acc[tc.index] ELSE NewSlot(tc)
    IN  [i \in (DOMAIN acc) \cup {tc.index} |->
            IF i = tc.index THEN UpdateSlot(slot, tc) ELSE acc[i]]

RECURSIVE ApplyDeltas(_, _)
ApplyDeltas(acc, tcs) ==
    IF tcs = <<>> THEN acc
    ELSE ApplyDeltas(ApplyDelta(acc, Head(tcs)), Tail(tcs))

NoSlots == [i \in {} |-> NewSlot([type |-> None])]

StreamStart == [parts |-> <<>>, acc |-> NoSlots, finish_reason |-> None]

\* the body of "for event in stream"
ConsumeEvent(st, ev) ==
    [parts |-> IF TruthyText(ev.content) THEN Append(st.parts, ev.content.val)
               ELSE st.parts,
     acc |-> IF ~IsNone(ev.tool_calls) /\ ev.tool_calls.val # <<>>
             THEN ApplyDeltas(st.acc, ev.tool_calls.val)
             ELSE st.acc,
     finish_reason |-> IF TruthyStr(ev.finish_reason) THEN ev.finish_reason
                       ELSE st.finish_reason]

RECURSIVE ConsumeStream(_, _)
ConsumeStream(st, events) ==
    IF events = <<>> THEN st
    ELSE ConsumeStream(ConsumeEvent(st, Head(events)), Tail(events))

\* variant: the parts joined from the last to the first
RECURSIVE JoinPartsReversed(_)
JoinPartsReversed(parts) ==
    IF parts = <<>> THEN <<>> ELSE JoinPartsReversed(Tail(parts)) \o Head(parts)

\* "".join(assistant_text_parts)
RECURSIVE JoinParts(_)
JoinParts(parts) ==
    IF parts = <<>> THEN <<>> ELSE Head(parts) \o JoinParts(Tail(parts))

\* variant: the keys from the largest to the smallest
RECURSIVE SortedKeysDescending(_)
SortedKeysDescending(S) ==
    IF S = {} THEN <<>>
    ELSE LET m == CHOOSE x \in S : \A y \in S : x >= y
         IN  <<m>> \o SortedKeysDescending(S \ {m})

\* sorted(tool_calls_acc.keys())
RECURSIVE SortedKeys(_)
SortedKeys(S) ==
    IF S = {} THEN <<>>
    ELSE LET m == CHOOSE x \in S : \A y \in S : x <= y
         IN  <<m>> \o SortedKeys(S \ {m})

\* slot["id"] or f"tool_{idx}"
SlotId(slot, idx) ==
    IF TruthyStr(slot.id) THEN slot.id.val ELSE "tool_" \o ToString(idx)

\* the assistant_tool_calls built when finish_reason == "tool_calls"
AssembledCalls(acc) ==
    LET keys == SortedKeys(DOMAIN acc)
    IN  [k \in 1..Len(keys) |->
            [id |-> SlotId(acc[keys[k]], keys[k]),
             type |-> IF TruthyStr(acc[keys[k]].type) THEN acc[keys[k]].type.val
                      ELSE "function",
             name |-> acc[keys[k]].name,
             arguments |-> acc[keys[k]].arguments]]

(***************************************************************************)
(* The streams the model service may send: a response (its text, its tool  *)
(* calls, with or without an id, its finish reason, or none) cut into      *)
(* events in one of several ways.                                          *)
(***************************************************************************)
\* the ids of a streamed batch of n calls: the model's own on every call,
\* none at all, or one on slot 0 only that reads like a placeholder
StreamIds(n) ==
    { [i \in 1..n |-> Val(CallId(i))],
      [i \in 1..n |-> None],
      [i \in 1..n |-> IF i = 1 THEN Val("tool_1") ELSE None] }

StreamBatches(n) ==
    { [i \in 1..n |-> [id |-> ids[i], name |-> nms[i], arguments |-> args[i]]] :
        ids \in StreamIds(n), nms \in [1..n -> ToolNames], args \in [1..n -> ArgTexts] }

StreamResponses(n) ==
    { [finish_reason |-> fr, content |-> c, tool_calls |-> <<>>] :
        fr \in {None} \cup {Val(x) : x \in FinishReasons \ {"tool_calls"}},
        c \in Contents }
    \cup
    { [finish_reason |-> Val("tool_calls"), content |-> None, tool_calls |-> b] :
        b \in UNION { StreamBatches(k) : k \in 0..n } }

StreamStyles == {"whole", "split", "bundled"}

\* the text of a response, one event per token
TextEvents(content) ==
    IF IsNone(content) THEN <<Event(Val(<<>>), None, None)>>
    ELSE [i \in 1..Len(content.val) |-> Event(Val(<<content.val[i]>>), None, None)]

FirstPart(a) == SubSeq(a, 1, Len(a) \div 2)
SecondPart(a) == SubSeq(a, Len(a) \div 2 + 1, Len(a))

StreamOf(resp, style) ==
    LET calls == resp.tool_calls
        n == Len(calls)
        last == <<Event(None, None, resp.finish_reason)>>
    IN  TextEvents(resp.content) \o
        ( CASE style = "whole" ->
                \* one event per call, carrying all of it
                [i \in 1..n |->
                    Event(None,
                          Val(<<Delta(i - 1, calls[i].id, Val("function"),
                                      Val(calls[i].name), Val(calls[i].arguments))>>),
                          None)]
            [] style = "split" ->
                \* id, type, name and the first part of the arguments of every
                \* call, then the rest of the arguments of every call
                [i \in 1..n |->
                    Event(None,
                          Val(<<Delta(i - 1, calls[i].id, Val("function"),
                                      Val(calls[i].name),
                                      Val(FirstPart(calls[i].arguments)))>>),
                          None)]
                \o
                [i \in 1..n |->
                    Event(None,
                          Val(<<Delta(i - 1, None, None, None,
                                      Val(SecondPart(calls[i].arguments)))>>),
                          None)]
            [] OTHER ->
                \* one event for all calls, highest slot first, no type
                <<Event(None,
                        Val([i \in 1..n |->
                              Delta(n - i, calls[n + 1 - i].id, None,
                                    Val(calls[n + 1 - i].name),
                                    Val(calls[n + 1 - i].arguments))]),
                        None)>> )
        \o last


(***************************************************************************)
(* main: connect_to_server and chat_loop run inside try, cleanup in        *)
(* finally.                                                                *)
(***************************************************************************)
\* nothing has happened yet
Fresh ==
    /\ messages = <<>>
    /\ user_input = <<>>
    /\ nToolCalls = 0
    /\ modelCalls = 0
    /\ invocations = 0
    /\ finish_reason = None
    /\ reply = None
    /\ tool_calls = <<>>
    /\ tasks = <<>>
    /\ gatherErr = ""
    /\ orphans = 0
    /\ outcome = "none"
    /\ error = ""
    /\ stepBase = <<>>
    /\ closed = FALSE
    /\ escaped = FALSE
    /\ stream = <<>>
    /\ tool_calls_acc = NoSlots
    /\ available_tools = None
    /\ assistant_text_parts = <<>>

Init ==
    /\ mode \in Modes
    /\ pc = "connect"
    /\ Fresh

\* connect_to_server returns: chat_loop starts with an empty message list
ConnectOk ==
    /\ pc = "connect"
    /\ pc' = "input"
    /\ messages' = <<>>
    /\ UNCHANGED <<assistant_text_parts, available_tools, stream, tool_calls_acc, mode, user_input, nToolCalls, modelCalls, invocations, finish_reason,
                   reply, tool_calls, tasks, gatherErr, orphans, outcome, error,
                   stepBase, closed, escaped>>

\* variant: connect_to_server called before the try of main
ConnectFailsOutsideTry ==
    /\ pc = "connect"
    /\ pc' = "done"
    /\ escaped' = TRUE
    /\ UNCHANGED <<assistant_text_parts, available_tools, stream, tool_calls_acc, mode, messages, user_input, nToolCalls, modelCalls, invocations,
                   finish_reason, reply, tool_calls, tasks, gatherErr, orphans,
                   outcome, error, stepBase, closed>>

\* connect_to_server raises: the finally clause of main runs
ConnectFails ==
    /\ pc = "connect"
    /\ pc' = "cleanup"
    /\ escaped' = TRUE
    /\ UNCHANGED <<assistant_text_parts, available_tools, stream, tool_calls_acc, mode, messages, user_input, nToolCalls, modelCalls, invocations,
                   finish_reason, reply, tool_calls, tasks, gatherErr, orphans,
                   outcome, error, stepBase, closed>>

\* cleanup: exit_stack.aclose(); the event loop then cancels what is left
Cleanup ==
    /\ pc = "cleanup"
    /\ pc' = "done"
    /\ closed' = TRUE
    /\ orphans' = 0
    /\ UNCHANGED <<assistant_text_parts, available_tools, stream, tool_calls_acc, mode, messages, user_input, nToolCalls, modelCalls, invocations,
                   finish_reason, reply, tool_calls, tasks, gatherErr, outcome, error,
                   stepBase, escaped>>

(***************************************************************************)
(* chat_loop.                                                              *)
(***************************************************************************)
\* variant: every turn starts from a fresh message list
WithUserMessageFresh(m, msgs, line) == <<UserMessage(line)>>

\* the message list a new user line leaves: appended to self.messages, or
\* the fresh local list of process_query
WithUserMessage(m, msgs, line) ==
    IF m = "single" THEN <<UserMessage(line)>> ELSE Append(msgs, UserMessage(line))

\* input() returns a line: break on exit, else start a turn.  The frame of
\* the turn before is gone; its tasks that still await the host stay
\* scheduled.
ReadInput ==
    /\ pc = "input"
    /\ \E line \in UserInputs :
        /\ user_input' = line
        /\ IF IsExit(line)
           THEN /\ pc' = "cleanup"
                /\ UNCHANGED messages
           ELSE /\ modelCalls < MaxModelCalls
                /\ messages' = WithUserMessage(mode, messages, line)
                /\ pc' = "list_tools"
    /\ finish_reason' = None
    /\ reply' = None
    /\ error' = ""
    /\ orphans' = orphans + Cardinality(Inflight(tasks))
    /\ tasks' = <<>>
    /\ UNCHANGED <<assistant_text_parts, available_tools, stream, tool_calls_acc, mode, nToolCalls, modelCalls, invocations, tool_calls, gatherErr,
                   outcome, stepBase, closed, escaped>>

\* input() raises (EOFError, KeyboardInterrupt): it is outside the try of
\* the loop body, so the exception leaves chat_loop
InputFails ==
    /\ pc = "input"
    /\ pc' = "cleanup"
    /\ escaped' = TRUE
    /\ orphans' = orphans + Cardinality(Inflight(tasks))
    /\ tasks' = <<>>
    /\ UNCHANGED <<assistant_text_parts, available_tools, stream, tool_calls_acc, mode, messages, user_input, nToolCalls, modelCalls, invocations,
                   finish_reason, reply, tool_calls, gatherErr, outcome, error,
                   stepBase, closed>>

\* await self.session.list_tools() at the top of a step: available_tools is
\* built from the answer, the one the tool host gives after modelCalls
\* model calls
ListTools ==
    /\ pc = "list_tools"
    /\ pc' = "model"
    /\ available_tools' = Val(modelCalls)
    /\ UNCHANGED <<assistant_text_parts, stream, tool_calls_acc, mode, messages, user_input,
                   nToolCalls, modelCalls, invocations, finish_reason, reply, tool_calls,
                   tasks, gatherErr, orphans, outcome, error, stepBase, closed, escaped>>

(***************************************************************************)
(* The finish_reason branches of process_messages, process_query and       *)
(* process_messages_streaming, up to the next await.                       *)
(***************************************************************************)
\* variant: the stop branch goes on to another model call
OnStopContinues(content) ==
    /\ messages' = Append(messages, AssistantText(content))
    /\ pc' = "list_tools"
    /\ outcome' = "final"
    /\ error' = ""
    /\ tool_calls' = <<>>
    /\ tasks' = <<>>
    /\ UNCHANGED <<gatherErr, orphans>>

\* finish_reason == "stop": one assistant message, return to chat_loop
OnStop(content) ==
    /\ messages' = Append(messages, AssistantText(content))
    /\ pc' = "input"
    /\ outcome' = "final"
    /\ error' = ""
    /\ tool_calls' = <<>>
    /\ tasks' = <<>>
    /\ UNCHANGED <<gatherErr, orphans>>

\* finish_reason == "tool_calls": the assistant message, then one
\* process_tool_call per call: as tasks awaited by asyncio.gather (nested,
\* streaming), or awaited one after the other (single)
OnToolCalls(calls) ==
    /\ messages' = Append(messages, AssistantCalls(calls))
    /\ tool_calls' = calls
    /\ tasks' = [i \in 1..Len(calls) |-> NewTask]
    /\ gatherErr' = ""
    /\ pc' = IF mode # "single" THEN "gather"
             ELSE IF calls = <<>> THEN "model2" ELSE "seq"
    /\ outcome' = "running"
    /\ error' = ""
    /\ UNCHANGED orphans

\* variant: the error of a finish_reason is not caught by chat_loop
OnFinishErrorFatal(err) ==
    /\ pc' = "cleanup"
    /\ outcome' = "failed_finish"
    /\ error' = err
    /\ tool_calls' = <<>>
    /\ tasks' = <<>>
    /\ UNCHANGED <<messages, gatherErr, orphans>>

\* any other finish_reason: raise; the except clause of chat_loop prints
\* and the loop goes on
OnFinishError(err) ==
    /\ pc' = "input"
    /\ outcome' = "failed_finish"
    /\ error' = err
    /\ tool_calls' = <<>>
    /\ tasks' = <<>>
    /\ UNCHANGED <<messages, gatherErr, orphans>>

\* finish_reason == "tool_calls" and message.tool_calls is None: the assert
\* raises before anything is appended
OnAssertionError ==
    /\ pc' = "input"
    /\ outcome' = "failed_assert"
    /\ error' = "AssertionError"
    /\ tool_calls' = <<>>
    /\ tasks' = <<>>
    /\ UNCHANGED <<messages, gatherErr, orphans>>

\* process_messages of the nested client and process_query of the single
\* client, from the (first) completions.create on
ProcessMessages ==
    /\ mode \in {"nested", "single"}
    /\ pc = "model"
    /\ modelCalls < MaxModelCalls
    /\ \E resp \in ModelResponses(MaxToolCalls - nToolCalls) :
        /\ finish_reason' = Val(resp.finish_reason)
        /\ nToolCalls' = nToolCalls +
                (IF IsNone(resp.tool_calls) THEN 0 ELSE Len(resp.tool_calls.val))
        /\ CASE resp.finish_reason = "stop" ->
                  /\ OnStop(resp.content)
                  /\ reply' = resp.content
             [] resp.finish_reason = "tool_calls" /\ IsNone(resp.tool_calls) ->
                  /\ OnAssertionError
                  /\ reply' = None
             [] resp.finish_reason = "tool_calls" ->
                  /\ OnToolCalls(resp.tool_calls.val)
                  /\ reply' = None
             [] OTHER ->
                  /\ OnFinishError(FinishError(mode, resp.finish_reason))
                  /\ reply' = None
    /\ modelCalls' = modelCalls + 1
    /\ stepBase' = messages
    /\ UNCHANGED <<assistant_text_parts, available_tools, stream, tool_calls_acc, mode, user_input, invocations, closed, escaped>>

\* process_messages_streaming, from completions.create(stream=True) on
ProcessMessagesStreaming ==
    /\ mode = "streaming"
    /\ pc = "model"
    /\ modelCalls < MaxModelCalls
    /\ \E resp \in StreamResponses(MaxToolCalls - nToolCalls), style \in StreamStyles :
        LET st == ConsumeStream(StreamStart, StreamOf(resp, style))
            fr == IF IsNone(st.finish_reason) THEN "" ELSE st.finish_reason.val
        IN  /\ finish_reason' = st.finish_reason
            /\ CASE fr = "stop" ->
                      /\ OnStop(Val(JoinParts(st.parts)))
                      /\ reply' = resp.content
                      /\ UNCHANGED nToolCalls
                 [] fr = "tool_calls" ->
                      /\ OnToolCalls(AssembledCalls(st.acc))
                      /\ reply' = None
                      /\ nToolCalls' = nToolCalls + Len(AssembledCalls(st.acc))
                 [] OTHER ->
                      /\ OnFinishError(FinishError(mode, fr))
                      /\ reply' = None
                      /\ UNCHANGED nToolCalls
    /\ modelCalls' = modelCalls + 1
    /\ stepBase' = messages
    /\ UNCHANGED <<assistant_text_parts, available_tools, stream, tool_calls_acc, mode, user_input, invocations, closed, escaped>>

(***************************************************************************)
(* The tasks of a batch and asyncio.gather.                                *)
(***************************************************************************)
\* while the control coroutine awaits, the event loop runs the tasks
AtAwait == pc \in {"list_tools", "gather", "cleanup"}

\* variant: the outer future of gather takes the latest exception
LastException(current, err) == err

\* the outer future of gather takes the first exception of a child
FirstException(current, err) == IF current = "" THEN err ELSE current

\* a task runs to its first await: tasks start in creation order
TaskStart(i) ==
    /\ pc = "gather"
    /\ tasks[i].state = "created"
    /\ \A j \in 1..(i - 1) : tasks[j].state # "created"
    /\ IF IsNone(ParseArguments(mode, tool_calls[i]))
       THEN /\ tasks' = [tasks EXCEPT ![i] =
                           TaskFailed(@, "JSONDecodeError",
                                      Cardinality(Finished(tasks)) + 1)]
            /\ gatherErr' = FirstException(gatherErr, "JSONDecodeError")
            /\ UNCHANGED invocations
       ELSE /\ tasks' = [tasks EXCEPT ![i] = TaskInvoked(@)]
            /\ invocations' = invocations + 1
            /\ UNCHANGED gatherErr
    /\ UNCHANGED <<assistant_text_parts, available_tools, stream, tool_calls_acc, mode, pc, messages, user_input, nToolCalls, modelCalls, finish_reason,
                   reply, tool_calls, orphans, outcome, error, stepBase, closed,
                   escaped>>

\* variant: a task appends its message to the message list itself
TaskSettleAppending(i) ==
    /\ pc = "gather"
    /\ tasks[i].state = "inflight"
    /\ \A j \in 1..Len(tasks) : tasks[j].state # "created"
    /\ \E resp \in HostResponses :
        /\ tasks' = [tasks EXCEPT ![i] =
                        ToolCallOutcome(mode, tool_calls[i], @, resp,
                                        Cardinality(Finished(tasks)) + 1)]
        /\ gatherErr' = IF tasks'[i].state = "err"
                        THEN FirstException(gatherErr, tasks'[i].error)
                        ELSE gatherErr
        /\ messages' = IF tasks'[i].state = "ok"
                       THEN Append(messages, tasks'[i].result.val)
                       ELSE messages
    /\ UNCHANGED <<assistant_text_parts, available_tools, stream, tool_calls_acc, mode, pc, user_input,
                   nToolCalls, modelCalls, invocations, finish_reason, reply, tool_calls,
                   orphans, outcome, error, stepBase, closed, escaped>>

\* the tool host answers a call of the batch gather waits for: the task
\* returns or raises. The tasks were all made ready before gather was
\* awaited, so the first step of each runs before any answer is read.
TaskSettle(i) ==
    /\ pc = "gather"
    /\ tasks[i].state = "inflight"
    /\ \A j \in 1..Len(tasks) : tasks[j].state # "created"
    /\ \E resp \in HostResponses :
        /\ tasks' = [tasks EXCEPT ![i] =
                        ToolCallOutcome(mode, tool_calls[i], @, resp,
                                        Cardinality(Finished(tasks)) + 1)]
        /\ gatherErr' = IF tasks'[i].state = "err"
                        THEN FirstException(gatherErr, tasks'[i].error)
                        ELSE gatherErr
    /\ UNCHANGED <<assistant_text_parts, available_tools, stream, tool_calls_acc, mode, pc, messages, user_input, nToolCalls, modelCalls, invocations,
                   finish_reason, reply, tool_calls, orphans, outcome, error, stepBase,
                   closed, escaped>>

\* the tool host answers a call of a batch whose gather has raised: nobody
\* awaits that task, what it returns or raises is dropped
OrphanSettle ==
    /\ AtAwait
    /\ orphans > 0
    /\ orphans' = orphans - 1
    /\ UNCHANGED <<assistant_text_parts, available_tools, stream, tool_calls_acc, mode, pc, messages, user_input, nToolCalls, modelCalls, invocations,
                   finish_reason, reply, tool_calls, tasks, gatherErr, outcome, error,
                   stepBase, closed, escaped>>

\* variant: the results in the order in which the tasks completed
GatherResultsInCompletionOrder(ts) ==
    [k \in 1..Len(ts) |->
        ts[CHOOSE i \in 1..Len(ts) : ts[i].order = k].result.val]

\* the results of gather: those of the tasks, in the order of the tasks
GatherResults(ts) == [i \in 1..Len(ts) |-> ts[i].result.val]

\* variant: the turn ends after one batch
GatherReturnOnce ==
    /\ pc = "gather"
    /\ \A i \in 1..Len(tasks) : tasks[i].state = "ok"
    /\ messages' = messages \o GatherResults(tasks)
    /\ pc' = "input"
    /\ UNCHANGED <<assistant_text_parts, available_tools, stream, tool_calls_acc, mode, user_input, nToolCalls, modelCalls,
                   invocations, finish_reason, reply, tool_calls, tasks, gatherErr,
                   orphans, outcome, error, stepBase, closed, escaped>>

\* every task returned: messages.extend(results), then the recursive call
GatherReturn ==
    /\ pc = "gather"
    /\ \A i \in 1..Len(tasks) : tasks[i].state = "ok"
    /\ messages' = messages \o GatherResults(tasks)
    /\ pc' = "list_tools"
    /\ UNCHANGED <<assistant_text_parts, available_tools, stream, tool_calls_acc, mode, user_input, nToolCalls, modelCalls, invocations, finish_reason,
                   reply, tool_calls, tasks, gatherErr, orphans, outcome, error,
                   stepBase, closed, escaped>>

\* variant: after the exception of a batch the step is tried again
GatherRaiseRetry ==
    /\ pc = "gather"
    /\ gatherErr # ""
    /\ \A i \in 1..Len(tasks) : tasks[i].state # "created"
    /\ pc' = "list_tools"
    /\ outcome' = "failed_dispatch"
    /\ error' = gatherErr
    /\ gatherErr' = ""
    /\ UNCHANGED <<assistant_text_parts, available_tools, stream, tool_calls_acc, mode, messages, user_input,
                   nToolCalls, modelCalls, invocations, finish_reason, reply, tool_calls,
                   tasks, orphans, stepBase, closed, escaped>>

\* variant: the messages of the calls that returned are kept on failure
GatherRaiseKeepingResults ==
    /\ pc = "gather"
    /\ gatherErr # ""
    /\ \A i \in 1..Len(tasks) : tasks[i].state # "created"
    /\ messages' = messages \o
         SelectSeq([i \in 1..Len(tasks) |->
                      IF tasks[i].state = "ok" THEN tasks[i].result.val
                      ELSE UserMessage(<<>>)],
                   LAMBDA msg : msg.role = "tool")
    /\ pc' = "input"
    /\ outcome' = "failed_dispatch"
    /\ error' = gatherErr
    /\ gatherErr' = ""
    /\ UNCHANGED <<assistant_text_parts, available_tools, stream, tool_calls_acc, mode, user_input, nToolCalls, modelCalls, invocations,
                   finish_reason, reply, tool_calls, tasks, orphans, stepBase, closed,
                   escaped>>

\* variant: the assistant message of the failed batch is rolled back
GatherRaiseRollback ==
    /\ pc = "gather"
    /\ gatherErr # ""
    /\ \A i \in 1..Len(tasks) : tasks[i].state # "created"
    /\ messages' = stepBase
    /\ pc' = "input"
    /\ outcome' = "failed_dispatch"
    /\ error' = gatherErr
    /\ gatherErr' = ""
    /\ UNCHANGED <<assistant_text_parts, available_tools, stream, tool_calls_acc, mode, user_input, nToolCalls, modelCalls, invocations,
                   finish_reason, reply, tool_calls, tasks, orphans, stepBase, closed,
                   escaped>>

\* a task raised: gather raises its exception while the other tasks go on;
\* the exception reaches the except clause of chat_loop
GatherRaise ==
    /\ pc = "gather"
    /\ gatherErr # ""
    /\ \A i \in 1..Len(tasks) : tasks[i].state # "created"
    /\ pc' = "input"
    /\ outcome' = "failed_dispatch"
    /\ error' = gatherErr
    /\ gatherErr' = ""
    /\ UNCHANGED <<assistant_text_parts, available_tools, stream, tool_calls_acc, mode, messages, user_input, nToolCalls, modelCalls, invocations,
                   finish_reason, reply, tool_calls, tasks, orphans, stepBase, closed,
                   escaped>>

(***************************************************************************)
(* The single client: process_query awaits process_tool_call call by call, *)
(* then asks the model once more and returns.                              *)
(***************************************************************************)
\* variant: a call is started without waiting for the calls before it
SeqStartEager(i) ==
    /\ pc = "seq"
    /\ tasks[i].state = "created"
    /\ IF IsNone(ParseArguments(mode, tool_calls[i]))
       THEN /\ pc' = "input"
            /\ outcome' = "failed_dispatch"
            /\ error' = "JSONDecodeError"
            /\ tasks' = [tasks EXCEPT ![i] = TaskFailed(@, "JSONDecodeError", i)]
            /\ UNCHANGED invocations
       ELSE /\ tasks' = [tasks EXCEPT ![i] = TaskInvoked(@)]
            /\ invocations' = invocations + 1
            /\ UNCHANGED <<pc, outcome, error>>
    /\ UNCHANGED <<assistant_text_parts, available_tools, stream, tool_calls_acc, mode,
                   messages, user_input, nToolCalls, modelCalls, finish_reason, reply,
                   tool_calls, gatherErr, orphans, stepBase, closed, escaped>>

\* process_tool_call of the next call runs to its await, or raises
SeqStart(i) ==
    /\ pc = "seq"
    /\ tasks[i].state = "created"
    /\ \A j \in 1..(i - 1) : tasks[j].state = "ok"
    /\ IF IsNone(ParseArguments(mode, tool_calls[i]))
       THEN /\ pc' = "input"
            /\ outcome' = "failed_dispatch"
            /\ error' = "JSONDecodeError"
            /\ tasks' = [tasks EXCEPT ![i] = TaskFailed(@, "JSONDecodeError", i)]
            /\ UNCHANGED invocations
       ELSE /\ tasks' = [tasks EXCEPT ![i] = TaskInvoked(@)]
            /\ invocations' = invocations + 1
            /\ UNCHANGED <<pc, outcome, error>>
    /\ UNCHANGED <<assistant_text_parts, available_tools, stream, tool_calls_acc, mode, messages, user_input, nToolCalls, modelCalls, finish_reason,
                   reply, tool_calls, gatherErr, orphans, stepBase, closed, escaped>>

\* the tool host answers: the tool message is appended, or the call raises
SeqSettle(i) ==
    /\ pc = "seq"
    /\ tasks[i].state = "inflight"
    /\ \E resp \in HostResponses :
        LET t == ToolCallOutcome(mode, tool_calls[i], tasks[i], resp, i)
        IN  /\ tasks' = [tasks EXCEPT ![i] = t]
            /\ IF t.state = "err"
               THEN /\ pc' = "input"
                    /\ outcome' = "failed_dispatch"
                    /\ error' = t.error
                    /\ UNCHANGED messages
               ELSE /\ messages' = Append(messages, t.result.val)
                    /\ pc' = IF i = Len(tasks) THEN "model2" ELSE "seq"
                    /\ UNCHANGED <<outcome, error>>
    /\ UNCHANGED <<assistant_text_parts, available_tools, stream, tool_calls_acc, mode, user_input, nToolCalls, modelCalls, invocations, finish_reason,
                   reply, tool_calls, gatherErr, orphans, stepBase, closed, escaped>>

\* variant: the finish_reason of the second completion is acted upon as
\* that of the first one is
SecondCompletionChecked ==
    /\ mode = "single"
    /\ pc = "model2"
    /\ modelCalls < MaxModelCalls
    /\ \E resp \in ModelResponses(MaxToolCalls - nToolCalls) :
        /\ finish_reason' = Val(resp.finish_reason)
        /\ reply' = resp.content
        /\ IF resp.finish_reason = "stop"
           THEN outcome' = "final" /\ error' = ""
           ELSE /\ outcome' = "failed_finish"
                /\ error' = FinishError(mode, resp.finish_reason)
    /\ modelCalls' = modelCalls + 1
    /\ pc' = "input"
    /\ tasks' = <<>>
    /\ UNCHANGED <<assistant_text_parts, available_tools, stream, tool_calls_acc, mode,
                   messages, user_input, nToolCalls, invocations, tool_calls, gatherErr,
                   orphans, stepBase, closed, escaped>>

\* the second completions.create of process_query: its content is printed,
\* whatever its finish_reason
SecondCompletion ==
    /\ mode = "single"
    /\ pc = "model2"
    /\ modelCalls < MaxModelCalls
    /\ \E resp \in ModelResponses(MaxToolCalls - nToolCalls) :
        /\ finish_reason' = Val(resp.finish_reason)
        /\ reply' = resp.content
    /\ modelCalls' = modelCalls + 1
    /\ pc' = "input"
    /\ outcome' = "final"
    /\ tasks' = <<>>
    /\ UNCHANGED <<assistant_text_parts, available_tools, stream, tool_calls_acc, mode, messages, user_input, nToolCalls, invocations, tool_calls,
                   gatherErr, orphans, error, stepBase, closed, escaped>>

Next ==
    \/ ConnectOk
    \/ ConnectFails
    \/ ReadInput
    \/ InputFails
    \/ ListTools
    \/ ProcessMessages
    \/ ProcessMessagesStreaming
    \/ \E i \in 1..Len(tasks) : TaskStart(i)
    \/ \E i \in 1..Len(tasks) : TaskSettle(i)
    \/ OrphanSettle
    \/ GatherReturn
    \/ GatherRaise
    \/ \E i \in 1..Len(tasks) : SeqStart(i)
    \/ \E i \in 1..Len(tasks) : SeqSettle(i)
    \/ SecondCompletion
    \/ Cleanup

Spec == Init /\ [][Next]_vars

\* the finally clause of main is reached: cleanup runs
FairSpec == Spec /\ WF_vars(Cleanup)

\* a step of a turn: of the control coroutine inside process_messages, or
\* of a task of the batch it waits for
TurnStep ==
    \/ ListTools
    \/ ProcessMessages
    \/ ProcessMessagesStreaming
    \/ \E i \in 1..Len(tasks) : TaskStart(i)
    \/ \E i \in 1..Len(tasks) : TaskSettle(i)
    \/ GatherReturn
    \/ GatherRaise

\* the tool host and the model service answer, and the event loop runs
\* what is ready: a turn that can take a step eventually takes one
TurnFairSpec == Spec /\ WF_vars(TurnStep)

(***************************************************************************)
(* The single client on its own: main, chat_loop and process_query.        *)
(***************************************************************************)
SingleInit ==
    /\ mode = "single"
    /\ pc = "connect"
    /\ Fresh

SingleNext ==
    \/ ConnectOk
    \/ ConnectFails
    \/ ReadInput
    \/ InputFails
    \/ ListTools
    \/ ProcessMessages
    \/ \E i \in 1..Len(tasks) : SeqStart(i)
    \/ \E i \in 1..Len(tasks) : SeqSettle(i)
    \/ SecondCompletion
    \/ Cleanup

\* a step of process_query
QueryStep ==
    \/ ListTools
    \/ ProcessMessages
    \/ \E i \in 1..Len(tasks) : SeqStart(i)
    \/ \E i \in 1..Len(tasks) : SeqSettle(i)
    \/ SecondCompletion

\* the tool host and the model service answer: a query that can take a
\* step eventually takes one
SingleFairSpec == SingleInit /\ [][SingleNext]_vars /\ WF_vars(QueryStep)

(***************************************************************************)
(* The loop "for event in stream" of process_messages_streaming on its     *)
(* own, delta by delta, for any sequence of tool-call deltas.              *)
(***************************************************************************)
NameDeltas == {None, Val("sea"), Val("rch")}

ArgumentDeltas == {None, Val(<<"{">>), Val(<<"}">>)}

\* the entries of delta.tool_calls the model service may send
Fragments ==
    { Delta(idx, None, None, name, arguments) :
        idx \in 0..1, name \in NameDeltas, arguments \in ArgumentDeltas }

AssemblerInit ==
    /\ mode = "streaming"
    /\ pc = "stream"
    /\ Fresh

\* one pass of "for tc in delta.tool_calls"
StreamFragment ==
    /\ pc = "stream"
    /\ Len(stream) < MaxFrags
    /\ \E tc \in Fragments :
        /\ stream' = Append(stream, tc)
        /\ tool_calls_acc' = ApplyDelta(tool_calls_acc, tc)
    /\ UNCHANGED <<mode, pc, messages, user_input, nToolCalls, modelCalls, invocations,
                   finish_reason, reply, tool_calls, tasks, gatherErr, orphans, outcome,
                   error, stepBase, closed, escaped, available_tools,
                   assistant_text_parts>>

AssemblerSpec == AssemblerInit /\ [][StreamFragment]_vars

(***************************************************************************)
(* The dispatch of one tool call on its own, for any tool name and any     *)
(* argument object: the step after a first response with one call.         *)
(***************************************************************************)
DispatchNames == {"search", "q"}

DispatchArgTexts ==
    { <<"{", "}">>,                                   \* {}
      <<"{", "q", ":", "x", "}">>,                    \* {"q": "x"}
      <<"{", "search", ":", "x", "}">>,               \* {"search": "x"}
      <<"{", "q", ":", "x", ",", "search", ":", "y", "}">>,
      <<"{", "not">> }                                \* malformed

DispatchInit ==
    /\ mode \in Modes
    /\ \E nm \in DispatchNames, a \in DispatchArgTexts :
        /\ tool_calls = <<ToolCall(CallId(1), nm, a)>>
        /\ messages = <<UserMessage(<<"h", "i">>), AssistantCalls(tool_calls)>>
    /\ pc = IF mode = "single" THEN "seq" ELSE "gather"
    /\ user_input = <<"h", "i">>
    /\ nToolCalls = 1
    /\ modelCalls = 1
    /\ invocations = 0
    /\ finish_reason = Val("tool_calls")
    /\ reply = None
    /\ tasks = <<NewTask>>
    /\ gatherErr = ""
    /\ orphans = 0
    /\ outcome = "running"
    /\ error = ""
    /\ stepBase = <<UserMessage(<<"h", "i">>)>>
    /\ closed = FALSE
    /\ escaped = FALSE
    /\ stream = <<>>
    /\ tool_calls_acc = NoSlots
    /\ available_tools = Val(0)
    /\ assistant_text_parts = <<>>

DispatchNext ==
    \/ \E i \in 1..Len(tasks) : TaskStart(i)
    \/ \E i \in 1..Len(tasks) : TaskSettle(i)
    \/ GatherReturn
    \/ GatherRaise
    \/ \E i \in 1..Len(tasks) : SeqStart(i)
    \/ \E i \in 1..Len(tasks) : SeqSettle(i)

DispatchSpec == DispatchInit /\ [][DispatchNext]_vars

(***************************************************************************)
(* One step of process_messages_streaming event by event: text deltas and  *)
(* tool-call deltas in any order, then the event with the finish_reason,   *)
(* then the batch.                                                         *)
(***************************************************************************)
TextDeltas == { <<>>, <<"68">>, <<"57">> }

SlotIndexes == 0..2

\* the events the model service may send before the last one
StreamEvents ==
    { Event(Val(t), None, None) : t \in TextDeltas }
    \cup
    { Event(None,
            Val(<<Delta(idx, None, None, Val("search"), Val(<<"{", "}">>))>>),
            None) : idx \in SlotIndexes }

StreamTurnInit ==
    /\ mode = "streaming"
    /\ pc = "stream"
    /\ messages = <<UserMessage(<<"h", "i">>)>>
    /\ user_input = <<"h", "i">>
    /\ nToolCalls = 0
    /\ modelCalls = 0
    /\ invocations = 0
    /\ finish_reason = None
    /\ reply = None
    /\ tool_calls = <<>>
    /\ tasks = <<>>
    /\ gatherErr = ""
    /\ orphans = 0
    /\ outcome = "running"
    /\ error = ""
    /\ stepBase = <<UserMessage(<<"h", "i">>)>>
    /\ closed = FALSE
    /\ escaped = FALSE
    /\ stream = <<>>
    /\ tool_calls_acc = NoSlots
    /\ available_tools = Val(0)
    /\ assistant_text_parts = <<>>

\* one pass of "for event in stream", the event carrying no finish_reason
StreamEvent ==
    /\ pc = "stream"
    /\ Len(stream) < MaxFrags
    /\ \E ev \in StreamEvents :
        LET st == ConsumeEvent([parts |-> assistant_text_parts,
                                acc |-> tool_calls_acc,
                                finish_reason |-> finish_reason], ev)
        IN  /\ stream' = Append(stream, ev)
            /\ assistant_text_parts' = st.parts
            /\ tool_calls_acc' = st.acc
    /\ UNCHANGED <<mode, pc, messages, user_input, nToolCalls, modelCalls, invocations,
                   finish_reason, reply, tool_calls, tasks, gatherErr, orphans, outcome,
                   error, stepBase, closed, escaped, available_tools>>

\* the last event, with its finish_reason, and the branch taken on it
StreamEnd ==
    /\ pc = "stream"
    /\ \E fr \in FinishReasons :
        /\ finish_reason' = Val(fr)
        /\ CASE fr = "stop" ->
                  /\ OnStop(Val(JoinParts(assistant_text_parts)))
                  /\ reply' = Val(JoinParts(assistant_text_parts))
                  /\ UNCHANGED nToolCalls
             [] fr = "tool_calls" ->
                  /\ OnToolCalls(AssembledCalls(tool_calls_acc))
                  /\ reply' = None
                  /\ nToolCalls' = nToolCalls + Len(AssembledCalls(tool_calls_acc))
             [] OTHER ->
                  /\ OnFinishError(FinishError(mode, fr))
                  /\ reply' = None
                  /\ UNCHANGED nToolCalls
    /\ modelCalls' = modelCalls + 1
    /\ UNCHANGED <<mode, user_input, invocations, stepBase, closed, escaped, stream,
                   tool_calls_acc, available_tools, assistant_text_parts>>

StreamTurnNext ==
    \/ StreamEvent
    \/ StreamEnd
    \/ \E i \in 1..Len(tasks) : TaskStart(i)
    \/ \E i \in 1..Len(tasks) : TaskSettle(i)
    \/ GatherReturn
    \/ GatherRaise

StreamTurnSpec == StreamTurnInit /\ [][StreamTurnNext]_vars

(***************************************************************************)
(* process_messages of the nested client as a function of the response:    *)
(* what it leaves in the message list and how the step ends.               *)
(***************************************************************************)
NestedTurnStep(msgs, fr, content, calls) ==
    CASE fr = "stop" ->
            [messages |-> Append(msgs, AssistantText(content)),
             outcome |-> "final", error |-> ""]
      [] fr = "tool_calls" ->
            [messages |-> Append(msgs, AssistantCalls(calls)),
             outcome |-> "running", error |-> ""]
      [] OTHER ->
            [messages |-> msgs, outcome |-> "failed_finish",
             error |-> FinishError("nested", fr)]

\* process_tool_call of the nested client as a function of the call and of
\* the answer of the tool host (resp is not read when json.loads raises)
NestedToolCall(tool_call, resp, rank) ==
    IF IsNone(ParseArguments("nested", tool_call))
    THEN TaskFailed(NewTask, "JSONDecodeError", rank)
    ELSE ToolCallOutcome("nested", tool_call, TaskInvoked(NewTask), resp.val, rank)

(***************************************************************************)
(* Properties.                                                             *)
(***************************************************************************)
Concurrent == mode \in {"nested", "streaming"}

\* control is back in chat_loop, or past it
TurnOver == pc \in {"input", "cleanup", "done"}

\* no model call, no tool invocation, no message in this step
Quiet ==
    /\ messages' = messages
    /\ modelCalls' = modelCalls
    /\ invocations' = invocations

\* the tool message for the i-th call of the batch, from what the host
\* answered to that call
ExpectedToolMessage(i) ==
    [role |-> "tool",
     content |->
        Val(JsonDumps(DictSet(ParseArguments(mode, tool_calls[i]).val,
                              tool_calls[i].name,
                              JsonList(ExtractResults(tasks[i].response.val.content).val)))),
     tool_calls |-> None,
     tool_call_id |-> Val(tool_calls[i].id)]

\* C1: when every call of a batch of N tool calls has succeeded, each call
\* has issued exactly one call_tool request and the message list is the one
\* of the model call, the assistant tool_calls message and N tool messages,
\* the i-th with the id and the host's result of the i-th call, whatever the
\* order in which the calls completed.
C1_BatchResultsInIssueOrder ==
    (Concurrent /\ pc \in {"list_tools", "model"} /\ outcome = "running") =>
        /\ Len(tasks) = Len(tool_calls)
        /\ \A i \in 1..Len(tasks) : tasks[i].calls = 1
        /\ messages = stepBase \o <<AssistantCalls(tool_calls)>>
                        \o [i \in 1..Len(tool_calls) |-> ExpectedToolMessage(i)]

\* a batch of two calls that completed in the reverse of the issue order
C1_Witness ==
    /\ mode = "nested"
    /\ pc = "list_tools"
    /\ outcome = "running"
    /\ Len(tasks) = 2
    /\ tasks[2].order < tasks[1].order
    /\ tasks[1].response # tasks[2].response
    /\ Len(messages) = Len(stepBase) + 3

\* the text the latest stop response carried, as the client received it
ReturnedText ==
    IF mode = "streaming" THEN Val(IF IsNone(reply) THEN <<>> ELSE reply.val)
    ELSE reply

\* C2: after a response with finish_reason stop (nested, streaming) the
\* message list is the one of the model call plus one assistant message
\* with the returned text, the turn is over, and until the next input is
\* read no model call and no tool invocation is made.
C2_StopEndsTurn ==
    /\ []((Concurrent /\ finish_reason = Val("stop")) =>
            /\ TurnOver
            /\ outcome = "final"
            /\ tasks = <<>>
            /\ messages = stepBase \o
                 <<[role |-> "assistant", content |-> ReturnedText,
                    tool_calls |-> None, tool_call_id |-> None]>>)
    /\ [][(Concurrent /\ finish_reason = Val("stop")) =>
            (modelCalls' = modelCalls /\ invocations' = invocations)]_vars

\* a stop response that follows a batch of tool calls in the same turn
C2_Witness ==
    /\ mode = "streaming"
    /\ finish_reason = Val("stop")
    /\ pc = "input"
    /\ modelCalls = 2
    /\ Len(messages) >= 4
    /\ messages[Len(messages)].content = Val(<<"6857">>)
    /\ messages[Len(messages) - 1].role = "tool"

\* C3: once a call of a batch has failed (nested, streaming), no step
\* appends a message while gather is pending, gather ends by raising into
\* chat_loop, the failed turn has no tool message after its assistant
\* message, and a call that completes after the failure appends nothing.
C3_FailedBatchAppendsNothing ==
    /\ []((Concurrent /\ outcome = "failed_dispatch" /\ pc = "input") =>
            \A k \in (Len(stepBase) + 1)..Len(messages) : messages[k].role # "tool")
    /\ [][(Concurrent /\ pc = "gather" /\ \E i \in 1..Len(tasks) : tasks[i].state = "err") =>
            /\ messages' = messages
            /\ pc' \in {"gather", "input"}
            /\ (pc' = "input" => outcome' = "failed_dispatch" /\ error' # "")]_vars
    /\ [][orphans' < orphans => messages' = messages]_vars

\* a sibling returned its message, another call got a non-text item
C3_Witness ==
    /\ mode = "nested"
    /\ pc = "input"
    /\ outcome = "failed_dispatch"
    /\ error = "UnsupportedResultType"
    /\ Len(tasks) = 2
    /\ tasks[1].state = "ok"
    /\ tasks[2].state = "err"

\* C4: when dispatch has returned to the orchestrator (nested, streaming:
\* control is not at the gather), no call of the batch is still in flight.
C4_DispatchJoinsAll ==
    (Concurrent /\ pc # "gather") => Inflight(tasks) = {}

\* the assistant message nearest before message k
NearestAssistant(k) ==
    LET before == {j \in 1..(k - 1) : messages[j].role = "assistant"}
    IN  CHOOSE j \in before : \A l \in before : l <= j

\* C5: every tool message has an assistant message before it, and its
\* tool_call_id is the id of exactly one tool call of the nearest one.
C5_ToolMessageMatchesOneCall ==
    \A k \in 1..Len(messages) :
        messages[k].role = "tool" =>
            /\ \E j \in 1..(k - 1) : messages[j].role = "assistant"
            /\ ~IsNone(messages[NearestAssistant(k)].tool_calls)
            /\ LET calls == messages[NearestAssistant(k)].tool_calls.val
               IN  Cardinality({c \in 1..Len(calls) :
                                  Val(calls[c].id) = messages[k].tool_call_id}) = 1

\* C6: a model response whose finish reason is neither stop nor tool_calls
\* fails the turn with an error and leaves the message list as it was.
C6_ErrorFinishFailsTurn ==
    [][(modelCalls' = modelCalls + 1
          /\ finish_reason' \notin {Val("stop"), Val("tool_calls")}) =>
            /\ outcome' = "failed_finish"
            /\ error' # ""
            /\ pc' = "input"
            /\ messages' = messages]_vars

\* C7: after a turn has failed during tool dispatch (nested, streaming) the
\* message list is the one of the failing model call plus the assistant
\* tool_calls message, and the next user message is appended right after it.
C7_FailedTurnKeepsAssistantMessage ==
    (Concurrent /\ outcome = "failed_dispatch") =>
        messages = stepBase \o <<AssistantCalls(tool_calls)>>
                     \o (IF TurnOver THEN <<>> ELSE <<UserMessage(user_input)>>)

\* the next user message follows the assistant message of the failed batch
C7_Witness ==
    /\ mode = "nested"
    /\ outcome = "failed_dispatch"
    /\ pc = "model"
    /\ Len(tool_calls) = 2
    /\ messages[Len(messages)].role = "user"
    /\ ~IsNone(messages[Len(messages) - 1].tool_calls)

InLoop == pc \in {"input", "list_tools", "model", "gather", "seq", "model2"}

\* the input lines that spell exit
ExitLines ==
    { <<"e", "x", "i", "t">>, <<"E", "X", "I", "T">>, <<"E", "x", "i", "t">> }

C9_CleanupOnEveryExit ==
    /\ [](pc = "done" => closed)
    /\ ((pc \in {"cleanup", "done"}) ~> closed)

\* an exception left the loop after a turn, and the connection was closed
C9_Witness ==
    /\ mode = "single"
    /\ closed
    /\ escaped
    /\ modelCalls > 0

\* C10: reading an exit line in any letter case ends the loop without a
\* model call, a tool invocation or a message, and none follows.
C10_ExitIsQuiet ==
    [][/\ (pc = "input" /\ ~escaped' /\ user_input' \in ExitLines) =>
            (pc' = "cleanup" /\ Quiet)
       /\ (pc \in {"cleanup", "done"}) => Quiet]_vars

\* EXIT in capitals ended a session that had made model calls
C10_Witness ==
    /\ pc = "done"
    /\ user_input = <<"E", "X", "I", "T">>
    /\ ~escaped
    /\ modelCalls > 0
    /\ Len(messages) > 0

\* the fragments of a stream addressed to slot idx, in arrival order
AddressedTo(fs, idx) == SelectSeq(fs, LAMBDA tc : tc.index = idx)

\* the concatenation of the argument deltas of fragments, in order
RECURSIVE ArgumentsIn(_)
ArgumentsIn(fs) ==
    IF fs = <<>> THEN <<>>
    ELSE (IF IsNone(Head(fs).function.val.arguments) THEN <<>>
          ELSE Head(fs).function.val.arguments.val) \o ArgumentsIn(Tail(fs))

\* C11: after any sequence of tool-call deltas, the slots are those the
\* deltas addressed, and the arguments of each slot are the concatenation,
\* in arrival order, of the argument deltas addressed to that slot.
C11_ArgumentsConcatenated ==
    /\ DOMAIN tool_calls_acc = {stream[k].index : k \in 1..Len(stream)}
    /\ \A idx \in DOMAIN tool_calls_acc :
          tool_calls_acc[idx].arguments = ArgumentsIn(AddressedTo(stream, idx))

\* slot 0, slot 1, slot 0 again: the two halves of slot 0 around slot 1
C11_Witness ==
    /\ Len(stream) = 3
    /\ stream[1].index = 0 /\ stream[2].index = 1 /\ stream[3].index = 0
    /\ stream[1].function.val.arguments = Val(<<"{">>)
    /\ stream[2].function.val.arguments = Val(<<"{">>)
    /\ stream[3].function.val.arguments = Val(<<"}">>)
    /\ tool_calls_acc[0].arguments = <<"{", "}">>
    /\ tool_calls_acc[1].arguments = <<"{">>

\* the concatenation of the name deltas of fragments, in order
RECURSIVE NamesIn(_)
NamesIn(fs) ==
    IF fs = <<>> THEN ""
    ELSE (IF IsNone(Head(fs).function.val.name) THEN ""
          ELSE Head(fs).function.val.name.val) \o NamesIn(Tail(fs))

\* C12: after any sequence of tool-call deltas, the name of each slot is
\* the concatenation, in arrival order, of the name deltas addressed to it.
C12_NameConcatenated ==
    \A idx \in DOMAIN tool_calls_acc :
        tool_calls_acc[idx].name = NamesIn(AddressedTo(stream, idx))

\* C13: in the batch assembled from a stream, the placeholder id of a slot
\* the model gave no id differs from the id of every other call of the
\* batch. The ids the model supplies differ from each other, so two calls
\* of a batch with the same id involve a placeholder.
C13_PlaceholderIdsUnique ==
    mode = "streaming" =>
        \A i, j \in 1..Len(tool_calls) :
            i # j => tool_calls[i].id # tool_calls[j].id

\* C14: the streaming client ends every step as the nested client does on
\* the same response: a streamed response with a finish reason leaves the
\* message list, the outcome and the error that process_messages leaves
\* for that finish reason, text and tool calls, and every call of a
\* streamed batch settles as process_tool_call of the nested client does
\* on the same call and the same answer of the tool host.
C14_StreamingMatchesNested ==
    /\ [][(mode = "streaming" /\ modelCalls' = modelCalls + 1
             /\ ~IsNone(finish_reason')) =>
            LET r == NestedTurnStep(messages, finish_reason'.val, reply', tool_calls')
            IN  /\ messages' = r.messages
                /\ outcome' = r.outcome
                /\ error' = r.error]_vars
    /\ [](mode = "streaming" =>
            \A i \in 1..Len(tasks) :
                tasks[i].state \in {"ok", "err"} =>
                    tasks[i] = NestedToolCall(tool_calls[i], tasks[i].response,
                                              tasks[i].order))

\* the members of the JSON object a tool message carries, in order: each a
\* key and the tokens of its value (a string, or a list)
RECURSIVE MembersFrom(_, _)
MembersFrom(t, i) ==
    IF t[i] = "}" THEN <<>>
    ELSE LET e == IF t[i + 2] = "["
                  THEN CHOOSE j \in (i + 2)..Len(t) :
                          t[j] = "]" /\ \A l \in (i + 2)..(j - 1) : t[l] # "]"
                  ELSE i + 2
             next == IF t[e + 1] = "," THEN e + 2 ELSE e + 1
         IN  <<[k |-> t[i], v |-> SubSeq(t, i + 2, e)]>> \o MembersFrom(t, next)

ContentMembers(content) == MembersFrom(content, 2)

\* C15: the content of the tool message of a successful call is one JSON
\* object that holds every argument key with its value, and one more key,
\* the tool's name, with the list of the text results in the host's order.
C15_ContentMergesArguments ==
    \A i \in 1..Len(tasks) :
        tasks[i].state = "ok" =>
            LET members == ContentMembers(tasks[i].result.val.content.val)
                args == ParseArguments(mode, tool_calls[i]).val
                texts == tasks[i].response.val.content
                list == <<"[">> \o JoinTokens([n \in 1..Len(texts) |-> <<texts[n].text>>], ",")
                            \o <<"]">>
            IN  /\ \A m, n \in 1..Len(members) : m # n => members[m].k # members[n].k
                /\ \A j \in 1..Len(args) : \E m \in 1..Len(members) : members[m] = args[j]
                /\ \E m \in 1..Len(members) :
                      members[m] = [k |-> tool_calls[i].name, v |-> list]
                /\ Len(members) = Len(args) + 1

\* C16: a call of a batch (nested, streaming) whose arguments text is not
\* valid JSON never issues a call_tool request, fails with the error of
\* json.loads, gets no tool message, and its batch never continues to the
\* next model call.
C16_MalformedArgumentsFail ==
    Concurrent =>
        \A i \in 1..Len(tasks) :
            IsNone(JsonLoads(tool_calls[i].arguments)) =>
                /\ tasks[i].calls = 0
                /\ tasks[i].state \in {"created", "err"}
                /\ tasks[i].state = "err" => tasks[i].error = "JSONDecodeError"
                /\ \A k \in (Len(stepBase) + 1)..Len(messages) :
                      messages[k].tool_call_id # Val(tool_calls[i].id)
                /\ ~(pc \in {"list_tools", "model"} /\ outcome = "running")

IsPrefix(a, b) == Len(a) <= Len(b) /\ SubSeq(b, 1, Len(a)) = a

\* C17: the message list of the nested and of the streaming client is empty
\* when the process starts, and every step leaves the list it found as a
\* prefix of the list it leaves: nothing is removed, reordered or changed,
\* in successful and in failed turns.
C17_ConversationAppendOnly ==
    /\ [](pc = "connect" => messages = <<>>)
    /\ [][Concurrent => IsPrefix(messages, messages')]_vars

\* a turn failed in dispatch, and the next turn ended with a stop response
C17_Witness ==
    /\ mode = "nested"
    /\ pc = "input"
    /\ outcome = "final"
    /\ Len(messages) = 4
    /\ ~IsNone(messages[2].tool_calls)
    /\ messages[3].role = "user"
    /\ messages[4].role = "assistant"

\* C18: a response (nested, streaming) with finish reason tool_calls and no
\* tool call appends one assistant message with an empty tool-call list
\* and goes on without an error; the gather of the empty batch then
\* returns with no tool invocation and no message appended, and the turn
\* is at the next list_tools and model call.
C18_EmptyBatchContinues ==
    /\ [][(Concurrent /\ modelCalls' = modelCalls + 1
             /\ finish_reason' = Val("tool_calls") /\ tool_calls' = <<>>) =>
            /\ messages' = Append(messages, AssistantCalls(<<>>))
            /\ pc' = "gather"
            /\ tasks' = <<>>
            /\ outcome' = "running"
            /\ error' = ""]_vars
    /\ [][(Concurrent /\ pc = "gather" /\ tool_calls = <<>> /\ pc' # "gather") =>
            (pc' = "list_tools" /\ Quiet)]_vars

\* a turn of the nested or streaming client is under way
InTurn == Concurrent /\ pc \in {"list_tools", "model", "gather"}

\* the model would be asked once more, beyond the calls the model explores
BeyondModelCalls == pc = "model" /\ modelCalls = MaxModelCalls

\* C19: a batch that succeeded is always followed by list_tools and
\* another model call, however many rounds the turn has made; and a turn
\* under way, when the model and the tool host answer, reaches the end of
\* the turn (final or failed, control back at input()) unless the model
\* keeps answering tool_calls up to the depth explored.
C19_TurnContinuesAndEnds ==
    /\ [][(Concurrent /\ pc = "gather" /\ pc' # "gather"
             /\ \A i \in 1..Len(tasks) : tasks[i].state = "ok") =>
            (pc' = "list_tools" /\ outcome' = "running")]_vars
    /\ [](InTurn /\ pc = "list_tools" => ENABLED ListTools)
    /\ (InTurn ~> ((pc = "input"
                      /\ outcome \in {"final", "failed_finish", "failed_dispatch",
                                       "failed_assert"})
                   \/ BeyondModelCalls))

\* a second model call followed a batch that succeeded, and ended the turn
C19_Witness ==
    /\ mode = "nested"
    /\ pc = "input"
    /\ outcome = "final"
    /\ modelCalls = 2
    /\ Len(messages) = 4
    /\ messages[3].role = "tool"
    /\ messages[4] = AssistantText(Val(<<"6857">>))

\* C20: every model call is made with the tool specs of a list_tools
\* request issued after the previous model call (after the start, for the
\* first one).
C20_ToolsFetchedBeforeEveryModelCall ==
    [][modelCalls' = modelCalls + 1 => available_tools = Val(modelCalls)]_vars

\* C21: (nested, streaming) the step in which a turn raises leaves control
\* at input(); from the raise until the next line is read no model call
\* and no tool invocation is made; from input() the turn machinery is
\* entered only by appending the line read as a user message; and
\* list_tools is reached only that way or after a batch that succeeded.
C21_FailedTurnNotRetried ==
    /\ [][(Concurrent /\ error' # "" /\ error' # error) => pc' = "input"]_vars
    /\ [][(Concurrent /\ error # "") =>
            (modelCalls' = modelCalls /\ invocations' = invocations)]_vars
    /\ [][(Concurrent /\ pc = "input") =>
            /\ modelCalls' = modelCalls
            /\ invocations' = invocations
            /\ pc' \in {"input", "cleanup", "list_tools"}
            /\ pc' = "list_tools" =>
                  (error' = "" /\ messages' = Append(messages, UserMessage(user_input')))]_vars
    /\ [][(Concurrent /\ pc' = "list_tools" /\ pc # "list_tools") =>
            (pc = "input" \/ (pc = "gather" /\ gatherErr = "" /\ error = ""))]_vars

\* after a turn that failed on its finish reason, the next line was read
\* and the next model call is about to be made
C21_Witness ==
    /\ mode = "streaming"
    /\ outcome = "failed_finish"
    /\ pc = "model"
    /\ modelCalls = 1
    /\ error = ""
    /\ Len(messages) = 2
    /\ messages[2] = UserMessage(user_input)

\* C22: (nested, streaming) while gather is pending no step changes the
\* message list: the steps of the tasks leave it alone, and so does the
\* completion of a task of a failed batch, during a later turn included.
C22_TasksNeverTouchMessages ==
    /\ [][(Concurrent /\ pc = "gather" /\ pc' = "gather") => messages' = messages]_vars
    /\ [][(Concurrent /\ pc = "gather" /\ tasks' # tasks) =>
            (messages' = messages /\ pc' = "gather")]_vars
    /\ [][(Concurrent /\ orphans' = orphans - 1) => messages' = messages]_vars

\* a task of a failed batch is still awaiting the tool host while the next
\* turn is about to call the model
C22_Witness ==
    /\ mode = "nested"
    /\ outcome = "failed_dispatch"
    /\ pc = "model"
    /\ orphans = 1
    /\ messages[Len(messages)] = UserMessage(user_input)

\* the slot indexes the tool-call deltas of the stream read so far named
SlotsSeen ==
    { stream[j].tool_calls.val[1].index :
        j \in { k \in 1..Len(stream) : ~IsNone(stream[k].tool_calls) } }

\* the k-th smallest of them
SlotAt(k) ==
    CHOOSE idx \in SlotsSeen : Cardinality({ i \in SlotsSeen : i < idx }) = k - 1

\* C23: (streaming) after a stream that ended with tool_calls the batch has
\* one call per slot index the deltas named, the k-th call being the one of
\* the k-th smallest index whatever the order of the deltas; the assistant
\* message carries that list, the calls are invoked in that order and the
\* tool messages are appended in that order.
C23_CallsInSlotOrder ==
    (pc \in {"gather", "list_tools"} /\ finish_reason = Val("tool_calls")) =>
        /\ Len(tool_calls) = Cardinality(SlotsSeen)
        /\ \A k \in 1..Len(tool_calls) :
              tool_calls[k].id = "tool_" \o ToString(SlotAt(k))
        /\ messages[2] = AssistantCalls(tool_calls)
        /\ Len(tasks) = Len(tool_calls)
        /\ \A k, l \in 1..Len(tasks) :
              (k < l /\ tasks[l].state # "created") => tasks[k].state # "created"
        /\ pc = "list_tools" =>
              /\ Len(messages) = 2 + Len(tool_calls)
              /\ \A k \in 1..Len(tool_calls) :
                    /\ messages[2 + k].role = "tool"
                    /\ messages[2 + k].tool_call_id =
                          Val("tool_" \o ToString(SlotAt(k)))

\* slot 2 appeared first, slot 0 second, and both calls have returned
C23_Witness ==
    /\ pc = "list_tools"
    /\ finish_reason = Val("tool_calls")
    /\ Len(stream) >= 2
    /\ ~IsNone(stream[1].tool_calls)
    /\ ~IsNone(stream[2].tool_calls)
    /\ stream[1].tool_calls.val[1].index = 2
    /\ stream[2].tool_calls.val[1].index = 0
    /\ Len(tool_calls) = 2
    /\ Len(messages) = 4

\* the text deltas of the events, one after the other as they arrived
RECURSIVE StreamText(_)
StreamText(events) ==
    IF events = <<>> THEN <<>>
    ELSE (IF IsNone(Head(events).content) THEN <<>> ELSE Head(events).content.val)
         \o StreamText(Tail(events))

\* C24: (streaming) after a stream that ended with stop the step has
\* appended one assistant message, whose content is the text deltas of the
\* stream joined in arrival order and which has no tool_calls; the
\* tool-call deltas of the stream caused no batch and no invocation, and
\* control is back in chat_loop.
C24_StopJoinsTextDeltas ==
    finish_reason = Val("stop") =>
        /\ pc = "input"
        /\ outcome = "final"
        /\ messages = Append(stepBase, AssistantText(Val(StreamText(stream))))
        /\ messages[Len(messages)].tool_calls = None
        /\ tool_calls = <<>>
        /\ tasks = <<>>
        /\ invocations = 0

\* two different text deltas with a tool-call delta between them
C24_Witness ==
    /\ finish_reason = Val("stop")
    /\ Len(stream) = 3
    /\ stream[1].content = Val(<<"68">>)
    /\ ~IsNone(stream[2].tool_calls)
    /\ stream[3].content = Val(<<"57">>)
    /\ messages[2].content = Val(<<"68", "57">>)
    /\ DOMAIN tool_calls_acc # {}

\* the calls of the batch that have raised
FailedCalls == { i \in 1..Len(tasks) : tasks[i].state = "err" }

\* C25: (nested, streaming) when a batch has failed, the error the except
\* clause of chat_loop caught is the one of the failed call that finished
\* first, whichever call was issued first, and the message list is the one
\* of the model call plus the assistant tool_calls message whichever call
\* that was.
C25_FirstSettledErrorReported ==
    (Concurrent /\ pc = "input" /\ outcome = "failed_dispatch") =>
        /\ FailedCalls # {}
        /\ \E i \in FailedCalls :
              /\ \A j \in FailedCalls : tasks[i].order <= tasks[j].order
              /\ error = tasks[i].error
        /\ messages = Append(stepBase, AssistantCalls(tool_calls))

\* both calls of a batch failed with different errors, the second call
\* first: its error is the one reported
C25_Witness ==
    /\ mode = "nested"
    /\ pc = "input"
    /\ outcome = "failed_dispatch"
    /\ FailedCalls = {1, 2}
    /\ tasks[2].order < tasks[1].order
    /\ tasks[1].error # tasks[2].error
    /\ tasks[1].error = "ToolCallFailed"
    /\ error = tasks[2].error

\* the calls of the batch of a query that process_tool_call was entered for
SeqEntered == { i \in 1..Len(tasks) : tasks[i].state # "created" }

\* C26: (single) the calls of a batch run one after the other in issue
\* order: at most one call_tool request is pending; a call is entered only
\* when every call before it has returned and its tool message is in the
\* message list; after a call that raised no later call is entered, the
\* tool messages of the calls before it are still in the list, and no
\* call_tool request is issued until a new query.
C26_SequentialDispatch ==
    /\ [](mode = "single" =>
            /\ Cardinality(Inflight(tasks)) <= 1
            /\ \A i \in SeqEntered : \A j \in 1..(i - 1) :
                  /\ tasks[j].state = "ok"
                  /\ tasks[j].calls = 1
                  /\ Len(messages) >= Len(stepBase) + 1 + j
                  /\ messages[Len(stepBase) + 1 + j] = ExpectedToolMessage(j)
            /\ \A i \in FailedCalls :
                  /\ \A l \in (i + 1)..Len(tasks) :
                        tasks[l].state = "created" /\ tasks[l].calls = 0
                  /\ pc = "input"
                  /\ messages = stepBase \o <<AssistantCalls(tool_calls)>>
                        \o [j \in 1..(i - 1) |-> ExpectedToolMessage(j)])
    /\ [][(mode = "single" /\ invocations' # invocations) =>
            /\ pc = "seq"
            /\ FailedCalls = {}
            /\ Inflight(tasks) = {}
            /\ invocations' = invocations + 1
            /\ Len(messages) = Len(stepBase) + 1 + Cardinality(SeqEntered)]_vars

\* the first call returned and its message was appended, then the second
\* call was invoked and failed at the tool host
C26_Witness ==
    /\ mode = "single"
    /\ pc = "input"
    /\ outcome = "failed_dispatch"
    /\ Len(tasks) = 2
    /\ tasks[1].state = "ok"
    /\ tasks[2].state = "err"
    /\ tasks[2].calls = 1
    /\ invocations = 2
    /\ Len(messages) = 3
    /\ messages[3].role = "tool"

\* process_query is under way
InQuery == mode = "single" /\ pc \in {"list_tools", "model", "seq", "model2"}

\* the second model call would be made beyond the calls the model explores
BeyondSecondCall == pc = "model2" /\ modelCalls = MaxModelCalls

\* C27: (single) a query starts from a list holding only its user message;
\* its first model call is made on that list, and a second model call is
\* made only after the batch of the first, once per query: whatever the
\* finish_reason of the second response the query returns without a tool
\* invocation, without a message and without an error. A query under way
\* reaches the end of process_query when the model and the tool host answer.
C27_QueryEndsAfterSecondCall ==
    /\ [][(mode = "single" /\ pc' = "list_tools" /\ pc # "list_tools") =>
            (pc = "input" /\ messages' = <<UserMessage(user_input')>>)]_vars
    /\ [][(mode = "single" /\ pc' = "model" /\ pc # "model") => pc = "list_tools"]_vars
    /\ [][(mode = "single" /\ modelCalls' # modelCalls) =>
            /\ modelCalls' = modelCalls + 1
            /\ \/ /\ pc = "model"
                  /\ messages = <<UserMessage(user_input)>>
                  /\ pc' \in {"input", "seq", "model2"}
               \/ /\ pc = "model2"
                  /\ pc' = "input"
                  /\ outcome' = "final"
                  /\ error' = ""
                  /\ invocations' = invocations
                  /\ messages' = messages]_vars
    /\ [][(mode = "single" /\ pc = "seq") =>
            (pc' \in {"seq", "model2", "input"} /\ modelCalls' = modelCalls)]_vars
    /\ [][(mode = "single" /\ pc = "model2") =>
            (pc' = "input" /\ invocations' = invocations)]_vars
    /\ (InQuery ~> (pc = "input" \/ BeyondSecondCall))

\* the second response of a query asked for tool calls again, and the
\* query ended with the one invocation of the first batch
C27_Witness ==
    /\ mode = "single"
    /\ pc = "input"
    /\ outcome = "final"
    /\ error = ""
    /\ modelCalls = 2
    /\ finish_reason = Val("tool_calls")
    /\ invocations = 1
    /\ Len(messages) = 3
    /\ messages[3].role = "tool"

====
